---- MODULE Spec2Model ----
(***************************************************************************)
(* The LCA dashboard of circu-metal-flow as a state machine.               *)
(*                                                                         *)
(*   LCADashboard      currentInputs, scenarios, selectedScenario,         *)
(*                     isRunningLCA, handleInputChange, handleRunLCA       *)
(*   UserInputModule   errors, validateInputs, handleSubmit, updateInput   *)
(*   ReportGenerator   isGenerating, reportGenerated, handleGenerateReport *)
(*   KPIDashboard      calculateKPIs                                       *)
(*   SankeyVisualization generateFlowData                                  *)
(*                                                                         *)
(* JavaScript runs every handler and every continuation after an await to  *)
(* completion before the next event is taken, so each of them is one       *)
(* action.  Objects are never mutated in place except for the assignment   *)
(* to scenario.inputs in handleInputChange, and every record stored there  *)
(* is a fresh spread copy, so records are modelled by value.               *)
(*                                                                         *)
(* Numbers: quantities are kg, distances km, times ms; the values the      *)
(* render functions compute are exact fractions [num, den].                *)
(***************************************************************************)
EXTENDS Integers, Sequences, FiniteSets, TLC

VARIABLES
    currentInputs,      \* LCADashboard: useState(defaultInputs)
    scenarios,          \* LCADashboard: the two scenarios, indexed 0 and 1
    selectedScenario,   \* LCADashboard: index of the selected scenario
    isRunningLCA,       \* LCADashboard: busy flag of the LCA run
    errors,             \* UserInputModule: Record<string, string>
    toast,              \* title of the toast shown last
    lcaFetch,           \* promise of fetch('/api/run_lca')
    lcaRequest,         \* body of the last POST to /api/run_lca
    lcaTimer,           \* ms left on handleRunLCA's setTimeout, NoTimer if none
    lcaElapsed,         \* ms since the running LCA run started (saturating)
    isGenerating,       \* ReportGenerator: busy flag
    reportGenerated,    \* ReportGenerator: a report is shown
    repFetch,           \* promise of fetch('/api/generate_report')
    repTimer,           \* ms left on handleGenerateReport's setTimeout
    repElapsed,         \* ms since the running report generation started
    edits,              \* number of updateInput calls made so far
    calcScenario,       \* the scenario prop handed to KPIDashboard / Sankey
    kpis,               \* what calculateKPIs returned for calcScenario
    flows               \* what generateFlowData returned for calcScenario

vars == << currentInputs, scenarios, selectedScenario, isRunningLCA, errors,
           toast, lcaFetch, lcaRequest, lcaTimer, lcaElapsed, isGenerating,
           reportGenerated, repFetch, repTimer, repElapsed, edits,
           calcScenario, kpis, flows >>

formVars == << currentInputs, scenarios, selectedScenario, errors, edits >>
lcaVars == << isRunningLCA, lcaFetch, lcaRequest, lcaTimer, lcaElapsed >>
repVars == << isGenerating, reportGenerated, repFetch, repTimer, repElapsed >>
calcVars == << calcScenario, kpis, flows >>

-----------------------------------------------------------------------------
(* Bounds of the model *)

\* updateInput calls explored per behaviour
MaxEdits == 2
\* granularity of the clock
TickMs == 1000
\* lcaElapsed and repElapsed saturate here
MaxClockMs == 3000
\* quantities a render is checked with: 100, 200, ... kg
MaxQuantitySteps == 10

-----------------------------------------------------------------------------
(* Program constants *)

LcaDelayMs == 2000
ReportDelayMs == 3000
MaxDistance == 10000
DistanceSliderMax == 5000
DistanceSliderStep == 50
QuantitySliderMin == 100
QuantitySliderMax == 10000
QuantitySliderStep == 100

NoTimer == -1
\* nothing posted yet
NoRequest == [ sent |-> FALSE ]
NoToast == "none"
\* nothing rendered yet
NoKpis == [ rendered |-> FALSE ]
NoFlows == << >>

Min(a, b) == IF a < b THEN a ELSE b
Max(a, b) == IF a > b THEN a ELSE b

defaultInputs ==
    [ metal |-> "aluminum", materialSource |-> "primary",
      energySource |-> "grid", transportMode |-> "truck",
      transportDistance |-> 500, endOfLife |-> "recycling",
      quantity |-> 1000 ]

initialScenarios ==
    [ i \in {0, 1} |->
        IF i = 0
        THEN [ name |-> "Conventional (Linear)", type |-> "conventional",
               inputs |-> [defaultInputs EXCEPT !.materialSource = "primary",
                                               !.endOfLife = "landfill"] ]
        ELSE [ name |-> "Circular Economy", type |-> "circular",
               inputs |-> [defaultInputs EXCEPT !.materialSource = "recycled",
                                               !.endOfLife = "recycling"] ] ]

Keys == { "metal", "materialSource", "energySource", "transportMode",
          "transportDistance", "endOfLife", "quantity" }

\* The values updateInput(key, value) is called with.  The enum keys take
\* the values of their type; the two numeric keys are typed number, and the
\* values here are the ones around validateInputs' limits.
InputValues(key) ==
    CASE key = "metal" -> {"aluminum", "copper"}
      [] key = "materialSource" -> {"primary", "recycled"}
      [] key = "energySource" -> {"coal", "grid", "renewables"}
      [] key = "transportMode" -> {"truck", "rail", "ship"}
      [] key = "transportDistance" ->
            { -DistanceSliderStep, 0, MaxDistance,
              MaxDistance + DistanceSliderStep }
      [] key = "endOfLife" -> {"landfill", "recycling"}
      [] key = "quantity" -> { -QuantitySliderStep, 0, QuantitySliderMin }

\* ControlValues with a quantity slider that starts at 0, a slider's default
\* minimum
ControlValues_QuantityFromZero(key) ==
    CASE key = "transportDistance" ->
            { 0, DistanceSliderStep, DistanceSliderMax }
      [] key = "quantity" -> { 0, QuantitySliderStep, QuantitySliderMax }
      [] OTHER -> InputValues(key)

\* The values the form's controls call updateInput(key, value) with: the
\* cards and selects offer the values of the enum types; a slider delivers
\* a multiple of its step between its min (0 when not given) and its max,
\* of which the two lowest and the highest are taken.
ControlValues(key) ==
    CASE key = "transportDistance" ->
            { 0, DistanceSliderStep, DistanceSliderMax }
      [] key = "quantity" ->
            { QuantitySliderMin, QuantitySliderMin + QuantitySliderStep,
              QuantitySliderMax }
      [] OTHER -> InputValues(key)

-----------------------------------------------------------------------------
(* UserInputModule *)

NoErrors == [ k \in {} |-> "" ]

\* {...e, [k]: v}
Put(e, k, v) == [ x \in (DOMAIN e) \cup {k} |-> IF x = k THEN v ELSE e[x] ]

\* errors[key] as the render and updateInput read it: undefined and "" are
\* both falsy
ErrorAt(e, k) == IF k \in DOMAIN e THEN e[k] ELSE ""

\* validateInputs with the quantity check off by one: 0 kg passes
validateInputs_ZeroQuantityPasses(inputs) ==
    LET e0 == NoErrors
        e1 == IF inputs.quantity < 0
              THEN Put(e0, "quantity", "Quantity must be greater than 0")
              ELSE e0
        e2 == IF inputs.transportDistance < 0
              THEN Put(e1, "transportDistance", "Distance cannot be negative")
              ELSE e1
        e3 == IF inputs.transportDistance > MaxDistance
              THEN Put(e2, "transportDistance",
                       "Distance seems unrealistic (>10,000 km)")
              ELSE e2
    IN  e3

validateInputs(inputs) ==
    LET e0 == NoErrors
        e1 == IF inputs.quantity <= 0
              THEN Put(e0, "quantity", "Quantity must be greater than 0")
              ELSE e0
        e2 == IF inputs.transportDistance < 0
              THEN Put(e1, "transportDistance", "Distance cannot be negative")
              ELSE e1
        e3 == IF inputs.transportDistance > MaxDistance
              THEN Put(e2, "transportDistance",
                       "Distance seems unrealistic (>10,000 km)")
              ELSE e2
    IN  e3

-----------------------------------------------------------------------------
(* LCADashboard *)

\* handleInputChange writing the new inputs into every scenario
handleInputChange_EveryScenario(newInputs) ==
    /\ currentInputs' = newInputs
    /\ scenarios' = [ i \in {0, 1} |->
                        [scenarios[i] EXCEPT !.inputs = newInputs] ]

handleInputChange(newInputs) ==
    /\ currentInputs' = newInputs
    /\ scenarios' = [scenarios EXCEPT ![selectedScenario].inputs = newInputs]

\* handleRunLCA up to its first await
handleRunLCA ==
    /\ isRunningLCA' = TRUE
    /\ lcaFetch' = "pending"
    /\ lcaRequest' = currentInputs
    /\ lcaTimer' = NoTimer
    /\ lcaElapsed' = 0

\* fetch resolved: the try block goes on to its setTimeout
LcaFetchResolves ==
    /\ lcaFetch = "pending"
    /\ lcaFetch' = "resolved"
    /\ lcaTimer' = LcaDelayMs
    /\ UNCHANGED << isRunningLCA, lcaRequest, lcaElapsed >>
    /\ UNCHANGED << formVars, toast, repVars, calcVars >>

\* the catch block without a finally: the flag is never cleared
LcaFetchRejects_StaysRunning ==
    /\ lcaFetch = "pending"
    /\ lcaFetch' = "rejected"
    /\ UNCHANGED << isRunningLCA, lcaRequest, lcaTimer, lcaElapsed >>
    /\ UNCHANGED << formVars, toast, repVars, calcVars >>

\* fetch rejected: catch logs, finally clears the flag
LcaFetchRejects ==
    /\ lcaFetch = "pending"
    /\ lcaFetch' = "rejected"
    /\ isRunningLCA' = FALSE
    /\ UNCHANGED << lcaRequest, lcaTimer, lcaElapsed >>
    /\ UNCHANGED << formVars, toast, repVars, calcVars >>

\* the 2000 ms timer fired: finally clears the flag
LcaDelayDone ==
    /\ lcaTimer = 0
    /\ lcaTimer' = NoTimer
    /\ isRunningLCA' = FALSE
    /\ UNCHANGED << lcaFetch, lcaRequest, lcaElapsed >>
    /\ UNCHANGED << formVars, toast, repVars, calcVars >>

\* ScenarioSelector: onScenarioChange = setSelectedScenario
onScenarioChange(index) ==
    /\ selectedScenario' = index
    /\ UNCHANGED << currentInputs, scenarios, errors, edits >>
    /\ UNCHANGED << toast, lcaVars, repVars, calcVars >>

-----------------------------------------------------------------------------
(* UserInputModule handlers *)

\* handleSubmit with a Run LCA button that is never disabled
handleSubmit_WhileRunning ==
    /\ LET newErrors == validateInputs(currentInputs) IN
        /\ errors' = newErrors
        /\ IF DOMAIN newErrors = {}
           THEN /\ handleRunLCA
                /\ toast' = "LCA Analysis Started"
           ELSE /\ toast' = "Validation Error"
                /\ UNCHANGED lcaVars
    /\ UNCHANGED << currentInputs, scenarios, selectedScenario, edits >>
    /\ UNCHANGED << repVars, calcVars >>

\* the Run LCA button is disabled while isLoading
handleSubmit ==
    /\ ~isRunningLCA
    /\ LET newErrors == validateInputs(currentInputs) IN
        /\ errors' = newErrors
        /\ IF DOMAIN newErrors = {}
           THEN /\ handleRunLCA
                /\ toast' = "LCA Analysis Started"
           ELSE /\ toast' = "Validation Error"
                /\ UNCHANGED lcaVars
    /\ UNCHANGED << currentInputs, scenarios, selectedScenario, edits >>
    /\ UNCHANGED << repVars, calcVars >>

\* updateInput without the clearing of the edited field's error
updateInput_KeepsError(key, value) ==
    /\ edits < MaxEdits
    /\ edits' = edits + 1
    /\ handleInputChange([currentInputs EXCEPT ![key] = value])
    /\ errors' = errors
    /\ UNCHANGED << selectedScenario, toast, lcaVars, repVars, calcVars >>

updateInput(key, value) ==
    /\ edits < MaxEdits
    /\ edits' = edits + 1
    /\ handleInputChange([currentInputs EXCEPT ![key] = value])
    /\ errors' = IF ErrorAt(errors, key) # ""
                 THEN Put(errors, key, "")
                 ELSE errors
    /\ UNCHANGED << selectedScenario, toast, lcaVars, repVars, calcVars >>

-----------------------------------------------------------------------------
(* ReportGenerator *)

\* handleGenerateReport with the Generate button still rendered while a
\* report is shown
handleGenerateReport_WhileShown ==
    /\ ~isGenerating
    /\ isGenerating' = TRUE
    /\ repFetch' = "pending"
    /\ repTimer' = NoTimer
    /\ repElapsed' = 0
    /\ UNCHANGED << reportGenerated, formVars, toast, lcaVars, calcVars >>

\* handleGenerateReport refused while an LCA run is in progress
handleGenerateReport_NotWhileRunning ==
    /\ ~isRunningLCA
    /\ ~reportGenerated
    /\ ~isGenerating
    /\ isGenerating' = TRUE
    /\ repFetch' = "pending"
    /\ repTimer' = NoTimer
    /\ repElapsed' = 0
    /\ UNCHANGED << reportGenerated, formVars, toast, lcaVars, calcVars >>

\* the Generate button is rendered while no report is shown and is
\* disabled while isGenerating
handleGenerateReport ==
    /\ ~reportGenerated
    /\ ~isGenerating
    /\ isGenerating' = TRUE
    /\ repFetch' = "pending"
    /\ repTimer' = NoTimer
    /\ repElapsed' = 0
    /\ UNCHANGED << reportGenerated, formVars, toast, lcaVars, calcVars >>

\* fetch resolved: the try block goes on to its setTimeout
ReportFetchResolves ==
    /\ repFetch = "pending"
    /\ repFetch' = "resolved"
    /\ repTimer' = ReportDelayMs
    /\ UNCHANGED << isGenerating, reportGenerated, repElapsed >>
    /\ UNCHANGED << formVars, toast, lcaVars, calcVars >>

\* the catch block without its setTimeout: the report is shown at once
ReportFetchRejects_NoDelay ==
    /\ repFetch = "pending"
    /\ repFetch' = "rejected"
    /\ repTimer' = 0
    /\ UNCHANGED << isGenerating, reportGenerated, repElapsed >>
    /\ UNCHANGED << formVars, toast, lcaVars, calcVars >>

\* fetch rejected: the catch block logs and goes on to its own setTimeout
ReportFetchRejects ==
    /\ repFetch = "pending"
    /\ repFetch' = "rejected"
    /\ repTimer' = ReportDelayMs
    /\ UNCHANGED << isGenerating, reportGenerated, repElapsed >>
    /\ UNCHANGED << formVars, toast, lcaVars, calcVars >>

\* the try block's timer fired
ReportTryDelayDone ==
    /\ repFetch = "resolved"
    /\ repTimer = 0
    /\ repTimer' = NoTimer
    /\ reportGenerated' = TRUE
    /\ toast' = "Report Generated Successfully"
    /\ isGenerating' = FALSE
    /\ UNCHANGED << repFetch, repElapsed, formVars, lcaVars, calcVars >>

\* the catch block reporting the failure instead of a mock success
ReportCatchDelayDone_FailureToast ==
    /\ repFetch = "rejected"
    /\ repTimer = 0
    /\ repTimer' = NoTimer
    /\ reportGenerated' = TRUE
    /\ toast' = "Report Generation Failed"
    /\ isGenerating' = FALSE
    /\ UNCHANGED << repFetch, repElapsed, formVars, lcaVars, calcVars >>

\* the catch block without its setReportGenerated(true)
ReportCatchDelayDone_NoReport ==
    /\ repFetch = "rejected"
    /\ repTimer = 0
    /\ repTimer' = NoTimer
    /\ toast' = "Report Generated Successfully"
    /\ isGenerating' = FALSE
    /\ UNCHANGED << reportGenerated, repFetch, repElapsed >>
    /\ UNCHANGED << formVars, lcaVars, calcVars >>

\* the catch block's timer fired
ReportCatchDelayDone ==
    /\ repFetch = "rejected"
    /\ repTimer = 0
    /\ repTimer' = NoTimer
    /\ reportGenerated' = TRUE
    /\ toast' = "Report Generated Successfully"
    /\ isGenerating' = FALSE
    /\ UNCHANGED << repFetch, repElapsed, formVars, lcaVars, calcVars >>

\* "Generate New Report", rendered while a report is shown
GenerateNewReport ==
    /\ reportGenerated
    /\ reportGenerated' = FALSE
    /\ UNCHANGED << isGenerating, repFetch, repTimer, repElapsed >>
    /\ UNCHANGED << formVars, toast, lcaVars, calcVars >>

-----------------------------------------------------------------------------
(* Time *)

TimerAfter(t) == IF t = NoTimer THEN NoTimer ELSE Max(0, t - TickMs)

\* TickMs pass while a run or a generation is in flight
Tick ==
    /\ isRunningLCA \/ isGenerating
    /\ lcaTimer' = TimerAfter(lcaTimer)
    /\ repTimer' = TimerAfter(repTimer)
    /\ lcaElapsed' = IF isRunningLCA
                     THEN Min(MaxClockMs, lcaElapsed + TickMs)
                     ELSE lcaElapsed
    /\ repElapsed' = IF isGenerating
                     THEN Min(MaxClockMs, repElapsed + TickMs)
                     ELSE repElapsed
    /\ UNCHANGED << isRunningLCA, lcaFetch, lcaRequest >>
    /\ UNCHANGED << isGenerating, reportGenerated, repFetch >>
    /\ UNCHANGED << formVars, toast, calcVars >>

-----------------------------------------------------------------------------
(* Exact decimal arithmetic.                                                *)
(* The program computes in IEEE-754 doubles.  A number is modelled by the   *)
(* exact fraction the source's decimal literals denote, kept in lowest      *)
(* terms; the one place where the double's error can show, the tie of       *)
(* Math.round, is modelled in MathRound.                                    *)

RECURSIVE GCD(_, _)
GCD(a, b) == IF b = 0 THEN a ELSE GCD(b, a % b)

Abs(n) == IF n < 0 THEN -n ELSE n

\* n/d with d > 0, in lowest terms
Frac(n, d) ==
    LET g == GCD(Abs(n), d) IN [ num |-> n \div g, den |-> d \div g ]

Num(n) == Frac(n, 1)
Mul(a, b) == Frac(a.num * b.num, a.den * b.den)
Add(a, b) == Frac(a.num * b.den + b.num * a.den, a.den * b.den)
Sub(a, b) == Frac(a.num * b.den - b.num * a.den, a.den * b.den)
\* a / b for b > 0
Div(a, b) == Frac(a.num * b.den, a.den * b.num)
Leq(a, b) == a.num * b.den <= b.num * a.den

\* Math.round(x) is floor(x + 0.5).  When x + 0.5 is exactly an integer the
\* double that stands for x may lie just below the tie, and Math.round then
\* returns one less: both results are possible there.
MathRound(x) ==
    LET r == (2 * x.num + x.den) \div (2 * x.den)
        tie == (2 * x.num + x.den) % (2 * x.den) = 0
    IN  IF tie THEN { r - 1, r } ELSE { r }

-----------------------------------------------------------------------------
(* KPIDashboard: calculateKPIs *)

baseValues(metal) ==
    IF metal = "aluminum"
    THEN [ co2 |-> Frac(119, 10), energy |-> Num(170), water |-> Num(1550) ]
    ELSE [ co2 |-> Frac(42, 10), energy |-> Num(65), water |-> Num(440) ]

\* energyFactors with renewables above the grid
energyFactors_RenewablesAboveGrid(energySource) ==
    CASE energySource = "coal" -> Frac(15, 10)
      [] energySource = "grid" -> Num(1)
      [] energySource = "renewables" -> Frac(11, 10)

energyFactors(energySource) ==
    CASE energySource = "coal" -> Frac(15, 10)
      [] energySource = "grid" -> Num(1)
      [] energySource = "renewables" -> Frac(1, 10)

co2Multiplier(inputs) ==
    LET m0 == Num(1)
        m1 == IF inputs.materialSource = "recycled"
              THEN Mul(m0, Frac(15, 100)) ELSE m0
    IN  Mul(m1, energyFactors(inputs.energySource))

energyMultiplier(inputs) ==
    IF inputs.materialSource = "recycled"
    THEN Mul(Num(1), Frac(5, 100)) ELSE Num(1)

waterMultiplier(inputs) ==
    IF inputs.materialSource = "recycled"
    THEN Mul(Num(1), Frac(3, 10)) ELSE Num(1)

\* transportEmissions with a factor per transport mode
transportEmissions_ByMode(inputs) ==
    Mul(Num(inputs.transportDistance),
        CASE inputs.transportMode = "truck" -> Frac(1, 10000)
          [] inputs.transportMode = "rail" -> Frac(3, 100000)
          [] inputs.transportMode = "ship" -> Frac(1, 100000))

\* transportEmissions with a factor ten times too large
transportEmissions_PerKm001(inputs) ==
    Mul(Num(inputs.transportDistance), Frac(1, 1000))

transportEmissions(inputs) ==
    Mul(Num(inputs.transportDistance), Frac(1, 10000))

endOfLifeBonus(inputs) ==
    IF inputs.endOfLife = "recycling" THEN Frac(8, 10) ELSE Num(1)

\* line 61 with the transport term added after the end-of-life multiplier
co2Footprint_TransportAfterBonus(inputs) ==
    Div(Mul(Add(Mul(Mul(baseValues(inputs.metal).co2, co2Multiplier(inputs)),
                    endOfLifeBonus(inputs)),
                transportEmissions(inputs)),
            Num(inputs.quantity)),
        Num(1000))

\* line 61 with the transport term left out of the scaling by quantity
co2Footprint_TransportUnscaled(inputs) ==
    Add(Div(Mul(Mul(Mul(baseValues(inputs.metal).co2, co2Multiplier(inputs)),
                    endOfLifeBonus(inputs)),
                Num(inputs.quantity)),
            Num(1000)),
        Mul(transportEmissions(inputs), endOfLifeBonus(inputs)))

\* line 61, before rounding
co2Footprint(inputs) ==
    Div(Mul(Mul(Add(Mul(baseValues(inputs.metal).co2, co2Multiplier(inputs)),
                    transportEmissions(inputs)),
                endOfLifeBonus(inputs)),
            Num(inputs.quantity)),
        Num(1000))

\* line 62, before rounding
energyUse(inputs) ==
    Div(Mul(Mul(baseValues(inputs.metal).energy, energyMultiplier(inputs)),
            Num(inputs.quantity)),
        Num(1000))

\* line 63, before rounding
waterUse(inputs) ==
    Div(Mul(Mul(baseValues(inputs.metal).water, waterMultiplier(inputs)),
            Num(inputs.quantity)),
        Num(1000))

recycledContent(inputs) == IF inputs.materialSource = "recycled" THEN 85 ELSE 0

\* circularityIndex derived from the end-of-life route, not the scenario type
circularityIndex_FromEndOfLife(scenario) ==
    IF scenario.inputs.endOfLife = "recycling" THEN 75 ELSE 25

circularityIndex(scenario) == IF scenario.type = "circular" THEN 75 ELSE 25

\* costSavings granted only when the product is also recycled at end of life
costSavings_RecyclingOnly(inputs) ==
    IF inputs.materialSource = "recycled" /\ inputs.endOfLife = "recycling"
    THEN 1250 ELSE 0

costSavings(inputs) == IF inputs.materialSource = "recycled" THEN 1250 ELSE 0

\* rounding to three decimals instead of two
Round2_ThreeDecimals(x) ==
    { Div(Num(r), Num(1000)) : r \in MathRound(Mul(x, Num(1000))) }

\* Math.round(x * 100) / 100
Round2(x) == { Div(Num(r), Num(100)) : r \in MathRound(Mul(x, Num(100))) }

\* The records calculateKPIs(scenario) can return: one, or those that differ
\* in the direction a tie was rounded.
calculateKPIs(scenario) ==
    { [ co2Footprint |-> c, energyUse |-> e,
        recycledContent |-> recycledContent(scenario.inputs),
        waterUse |-> w,
        circularityIndex |-> circularityIndex(scenario),
        costSavings |-> costSavings(scenario.inputs) ] :
      c \in Round2(co2Footprint(scenario.inputs)),
      e \in Round2(energyUse(scenario.inputs)),
      w \in Round2(waterUse(scenario.inputs)) }

-----------------------------------------------------------------------------
(* SankeyVisualization: generateFlowData *)

Flow(from, to, value, type) ==
    [ from |-> from, to |-> to, value |-> value, type |-> type ]

baseQuantity(inputs) == Div(Num(inputs.quantity), Num(1000))

\* materialInputFlows whose recycled branch leaves out the primary share
materialInputFlows_RecycledShareOnly(inputs) ==
    IF inputs.materialSource = "primary"
    THEN << Flow("Raw Materials", "Production", baseQuantity(inputs),
                 "primary") >>
    ELSE << Flow("Recycled Materials", "Production",
                 Mul(baseQuantity(inputs), Frac(85, 100)), "recycled") >>

materialInputFlows(inputs) ==
    IF inputs.materialSource = "primary"
    THEN << Flow("Raw Materials", "Production", baseQuantity(inputs),
                 "primary") >>
    ELSE << Flow("Recycled Materials", "Production",
                 Mul(baseQuantity(inputs), Frac(85, 100)), "recycled"),
            Flow("Raw Materials", "Production",
                 Mul(baseQuantity(inputs), Frac(15, 100)), "primary") >>

energyFlows(inputs) ==
    LET energyAmount == IF inputs.metal = "aluminum"
                        THEN Mul(baseQuantity(inputs), Num(15))
                        ELSE Mul(baseQuantity(inputs), Num(6))
        source == CASE inputs.energySource = "coal" -> "coal Energy"
                    [] inputs.energySource = "grid" -> "grid Energy"
                    [] inputs.energySource = "renewables" -> "renewables Energy"
    IN  << Flow(source, "Production", energyAmount, "energy") >>

transportFlows(inputs) ==
    << Flow("Production", "Distribution", baseQuantity(inputs), "transport") >>

usePhaseFlows(inputs) ==
    << Flow("Distribution", "Use Phase", baseQuantity(inputs), "primary") >>

\* endOfLifeFlows that sends a landfilled product through Recycling first
endOfLifeFlows_LandfillViaRecycling(inputs) ==
    IF inputs.endOfLife = "recycling"
    THEN << Flow("Use Phase", "Recycling",
                 Mul(baseQuantity(inputs), Frac(9, 10)), "circular"),
            Flow("Use Phase", "Waste",
                 Mul(baseQuantity(inputs), Frac(1, 10)), "waste"),
            Flow("Recycling", "Recycled Materials",
                 Mul(baseQuantity(inputs), Frac(85, 100)), "circular") >>
    ELSE << Flow("Use Phase", "Waste", baseQuantity(inputs), "waste"),
            Flow("Recycling", "Waste", baseQuantity(inputs), "waste") >>

\* endOfLifeFlows with the recovered mass taken from what reached Recycling
endOfLifeFlows_RecoveryOfRouted(inputs) ==
    IF inputs.endOfLife = "recycling"
    THEN << Flow("Use Phase", "Recycling",
                 Mul(baseQuantity(inputs), Frac(9, 10)), "circular"),
            Flow("Use Phase", "Waste",
                 Mul(baseQuantity(inputs), Frac(1, 10)), "waste"),
            Flow("Recycling", "Recycled Materials",
                 Mul(Mul(baseQuantity(inputs), Frac(9, 10)), Frac(85, 100)),
                 "circular") >>
    ELSE << Flow("Use Phase", "Waste", baseQuantity(inputs), "waste") >>

endOfLifeFlows(inputs) ==
    IF inputs.endOfLife = "recycling"
    THEN << Flow("Use Phase", "Recycling",
                 Mul(baseQuantity(inputs), Frac(9, 10)), "circular"),
            Flow("Use Phase", "Waste",
                 Mul(baseQuantity(inputs), Frac(1, 10)), "waste"),
            Flow("Recycling", "Recycled Materials",
                 Mul(baseQuantity(inputs), Frac(85, 100)), "circular") >>
    ELSE << Flow("Use Phase", "Waste", baseQuantity(inputs), "waste") >>

generateFlowData(scenario) ==
    materialInputFlows(scenario.inputs) \o energyFlows(scenario.inputs)
        \o transportFlows(scenario.inputs) \o usePhaseFlows(scenario.inputs)
        \o endOfLifeFlows(scenario.inputs)

-----------------------------------------------------------------------------
(* ScenarioSelector: getImpactPreview *)

\* getImpactPreview taking recycledContent from the scenario type
getImpactPreview_ByType(scenario) ==
    LET isCircular == scenario.type = "circular" IN
      [ recycledContent |-> IF isCircular THEN 85 ELSE 0,
        co2Reduction |-> IF isCircular THEN 65 ELSE 0,
        energySavings |-> IF isCircular THEN 45 ELSE 0 ]

getImpactPreview(scenario) ==
    LET isCircular == scenario.type = "circular" IN
      [ recycledContent |->
            IF scenario.inputs.materialSource = "recycled" THEN 85 ELSE 0,
        co2Reduction |-> IF isCircular THEN 65 ELSE 0,
        energySavings |-> IF isCircular THEN 45 ELSE 0 ]

-----------------------------------------------------------------------------
(* SankeyVisualization: the stage columns *)

\* stages whose Production column takes the edges that lead to Distribution
\* or to Production
stages_ProductionByTarget(fs) ==
    << [ name |-> "Inputs",
         flows |-> SelectSeq(fs, LAMBDA f : f.to = "Production") ],
       [ name |-> "Production",
         flows |-> SelectSeq(fs, LAMBDA f : f.to \in {"Production",
                                                      "Distribution"}) ],
       [ name |-> "Distribution",
         flows |-> SelectSeq(fs, LAMBDA f : f.from = "Distribution") ],
       [ name |-> "End of Life",
         flows |-> SelectSeq(fs, LAMBDA f : f.from = "Use Phase") ],
       [ name |-> "Recovery",
         flows |-> SelectSeq(fs, LAMBDA f : f.from = "Recycling") ] >>

\* the five columns the flows fs are grouped into
stages(fs) ==
    << [ name |-> "Inputs",
         flows |-> SelectSeq(fs, LAMBDA f : f.to = "Production") ],
       [ name |-> "Production",
         flows |-> SelectSeq(fs, LAMBDA f : f.from = "Production") ],
       [ name |-> "Distribution",
         flows |-> SelectSeq(fs, LAMBDA f : f.from = "Distribution") ],
       [ name |-> "End of Life",
         flows |-> SelectSeq(fs, LAMBDA f : f.from = "Use Phase") ],
       [ name |-> "Recovery",
         flows |-> SelectSeq(fs, LAMBDA f : f.from = "Recycling") ] >>

-----------------------------------------------------------------------------
(* The scenarios KPIDashboard and SankeyVisualization are rendered with *)

CalcQuantities == { QuantitySliderStep * i : i \in 1..MaxQuantitySteps }

CalcDistances ==
    { 0, DistanceSliderStep, defaultInputs.transportDistance,
      DistanceSliderMax }

CalcInputs ==
    [ metal : InputValues("metal"),
      materialSource : InputValues("materialSource"),
      energySource : InputValues("energySource"),
      transportMode : InputValues("transportMode"),
      transportDistance : CalcDistances,
      endOfLife : InputValues("endOfLife"),
      quantity : CalcQuantities ]

CalcScenarios ==
    { [initialScenarios[i] EXCEPT !.inputs = inputs] :
        i \in {0, 1}, inputs \in CalcInputs }

\* the render of KPIDashboard and SankeyVisualization with calcScenario
Render ==
    /\ kpis = NoKpis
    /\ kpis' \in calculateKPIs(calcScenario)
    /\ flows' = generateFlowData(calcScenario)
    /\ UNCHANGED << calcScenario, formVars, toast, lcaVars, repVars >>

-----------------------------------------------------------------------------
(* The dashboard *)

Init ==
    /\ currentInputs = defaultInputs
    /\ scenarios = initialScenarios
    /\ selectedScenario = 0
    /\ isRunningLCA = FALSE
    /\ errors = NoErrors
    /\ toast = NoToast
    /\ lcaFetch = "none"
    /\ lcaRequest = NoRequest
    /\ lcaTimer = NoTimer
    /\ lcaElapsed = 0
    /\ isGenerating = FALSE
    /\ reportGenerated = FALSE
    /\ repFetch = "none"
    /\ repTimer = NoTimer
    /\ repElapsed = 0
    /\ edits = 0
    /\ calcScenario = initialScenarios[0]
    /\ kpis = NoKpis
    /\ flows = NoFlows

\* the dashboard's form, the scenario selector and the LCA run
Next ==
    \/ \E key \in Keys : \E value \in InputValues(key) : updateInput(key, value)
    \/ \E index \in {0, 1} : onScenarioChange(index)
    \/ handleSubmit
    \/ LcaFetchResolves
    \/ LcaFetchRejects
    \/ LcaDelayDone
    \/ Tick

Spec == Init /\ [][Next]_vars

\* The dashboard operated through its controls only: the form's cards,
\* selects and sliders, the scenario selector and the Run LCA button.
NextUI ==
    \/ \E key \in Keys : \E value \in ControlValues(key) :
         updateInput(key, value)
    \/ \E index \in {0, 1} : onScenarioChange(index)
    \/ handleSubmit
    \/ LcaFetchResolves
    \/ LcaFetchRejects
    \/ LcaDelayDone
    \/ Tick

SpecUI == Init /\ [][NextUI]_vars

\* The form and the scenario selector alone: edits and selections.
NextForm ==
    \/ \E key \in Keys : \E value \in InputValues(key) : updateInput(key, value)
    \/ \E index \in {0, 1} : onScenarioChange(index)

SpecForm == Init /\ [][NextForm]_vars

\* The LCA run and the report generator side by side, the form left at its
\* defaults.
NextPanels ==
    \/ handleSubmit
    \/ LcaFetchResolves
    \/ LcaFetchRejects
    \/ LcaDelayDone
    \/ handleGenerateReport
    \/ ReportFetchResolves
    \/ ReportFetchRejects
    \/ ReportTryDelayDone
    \/ ReportCatchDelayDone
    \/ GenerateNewReport
    \/ Tick

SpecPanels == Init /\ [][NextPanels]_vars

\* Every fetch settles, time passes while something is in flight, and the
\* event loop runs a timer's continuation once the timer is due.
FairPanels ==
    /\ WF_vars(LcaFetchResolves \/ LcaFetchRejects)
    /\ WF_vars(ReportFetchResolves \/ ReportFetchRejects)
    /\ WF_vars(Tick)
    /\ WF_vars(LcaDelayDone)
    /\ WF_vars(ReportTryDelayDone)
    /\ WF_vars(ReportCatchDelayDone)

LiveSpecPanels == SpecPanels /\ FairPanels

\* The pure render functions, applied to every scenario of CalcScenarios.
InitCalc ==
    /\ currentInputs = defaultInputs
    /\ scenarios = initialScenarios
    /\ selectedScenario = 0
    /\ isRunningLCA = FALSE
    /\ errors = NoErrors
    /\ toast = NoToast
    /\ lcaFetch = "none"
    /\ lcaRequest = NoRequest
    /\ lcaTimer = NoTimer
    /\ lcaElapsed = 0
    /\ isGenerating = FALSE
    /\ reportGenerated = FALSE
    /\ repFetch = "none"
    /\ repTimer = NoTimer
    /\ repElapsed = 0
    /\ edits = 0
    /\ calcScenario \in CalcScenarios
    /\ kpis = NoKpis
    /\ flows = NoFlows

NextCalc == Render

SpecCalc == InitCalc /\ [][NextCalc]_vars

-----------------------------------------------------------------------------
(* Properties of the LCA run, the report panel and the form *)

\* C1: a started LCA run returns to Idle (isRunningLCA true -> false) only
\* once 2000 ms have passed since it started, whether the fetch resolved or
\* rejected.
C1_IdleOnlyAfterDelay ==
    [][(isRunningLCA /\ ~isRunningLCA') => lcaElapsed >= 2000]_vars

\* C2: every triggered report generation eventually reaches Generated
\* (reportGenerated, not isGenerating), and a generation ends only by
\* reaching Generated and only once 3000 ms have passed since it started,
\* whether the fetch resolved or rejected.
C2_ReportReachesGenerated ==
    /\ isGenerating ~> (reportGenerated /\ ~isGenerating)
    /\ [][(isGenerating /\ ~isGenerating')
            => (reportGenerated' /\ repElapsed >= 3000)]_vars

C2_Witness ==
    /\ reportGenerated
    /\ ~isGenerating
    /\ repFetch = "rejected"
    /\ repElapsed >= 3000

\* C3: while quantity <= 0, transportDistance < 0 or transportDistance >
\* 10000 no step starts an LCA run (isRunningLCA does not become true, no
\* request is sent), and a submit fills the error entry of every offending
\* field with a non-empty message and shows the validation toast.
C3_InvalidSubmitBlocked ==
    [][ ( \/ currentInputs.quantity <= 0
          \/ currentInputs.transportDistance < 0
          \/ currentInputs.transportDistance > 10000 )
        => /\ isRunningLCA' => isRunningLCA
           /\ lcaFetch' = "pending" => lcaFetch = "pending"
           /\ lcaRequest' = lcaRequest
           /\ handleSubmit =>
                /\ toast' = "Validation Error"
                /\ currentInputs.quantity <= 0
                     => ErrorAt(errors', "quantity") # ""
                /\ ( \/ currentInputs.transportDistance < 0
                     \/ currentInputs.transportDistance > 10000 )
                     => ErrorAt(errors', "transportDistance") # "" ]_vars

C3_Witness ==
    /\ toast = "Validation Error"
    /\ currentInputs.quantity <= 0
    /\ currentInputs.transportDistance > 10000
    /\ ErrorAt(errors, "quantity") # ""
    /\ ErrorAt(errors, "transportDistance") # ""
    /\ ~isRunningLCA
    /\ lcaFetch = "none"
    /\ lcaRequest = NoRequest

\* C4: changing a field whose error is populated to a valid value clears
\* that field's error, and a submit with all fields valid starts the run
\* and leaves no error populated.
C4_CorrectionClearsError ==
    [][ /\ ( /\ ErrorAt(errors, "quantity") # ""
             /\ currentInputs'.quantity # currentInputs.quantity
             /\ currentInputs'.quantity > 0 )
           => ErrorAt(errors', "quantity") = ""
        /\ ( /\ ErrorAt(errors, "transportDistance") # ""
             /\ currentInputs'.transportDistance
                  # currentInputs.transportDistance
             /\ currentInputs'.transportDistance >= 0
             /\ currentInputs'.transportDistance <= 10000 )
           => ErrorAt(errors', "transportDistance") = ""
        /\ ( /\ handleSubmit
             /\ currentInputs.quantity > 0
             /\ currentInputs.transportDistance >= 0
             /\ currentInputs.transportDistance <= 10000 )
           => /\ isRunningLCA'
              /\ lcaFetch' = "pending"
              /\ \A k \in Keys : ErrorAt(errors', k) = "" ]_vars

\* a blocked submit populated the quantity error and the edit to a valid
\* quantity cleared it: the entry is there and is empty
C4_Witness ==
    /\ "quantity" \in DOMAIN errors
    /\ errors["quantity"] = ""
    /\ currentInputs.quantity > 0

\* C5: no step changes the inputs, name or type of the scenario that is
\* not selected, nor the name or type of the selected one; there are always
\* the two scenarios.
C5_OtherScenarioUntouched ==
    [][ /\ DOMAIN scenarios' = {0, 1}
        /\ scenarios'[1 - selectedScenario] = scenarios[1 - selectedScenario]
        /\ scenarios'[selectedScenario].name = scenarios[selectedScenario].name
        /\ scenarios'[selectedScenario].type = scenarios[selectedScenario].type
      ]_vars

\* scenario 0 was edited, then scenario 1 was selected and edited
C5_Witness ==
    /\ selectedScenario = 1
    /\ scenarios[0].inputs # initialScenarios[0].inputs
    /\ scenarios[1].inputs # initialScenarios[1].inputs
    /\ scenarios[0].inputs # scenarios[1].inputs

-----------------------------------------------------------------------------
(* Properties of generateFlowData and calculateKPIs *)

\* the values of the edges of fs that lead from `from` to `to`
EdgeValues(fs, from, to) ==
    { fs[i].value : i \in { j \in DOMAIN fs : fs[j].from = from /\ fs[j].to = to } }

\* v is x rounded to two decimals: a multiple of 0.01 at most 0.005 from x
IsRounded2(v, x) ==
    /\ 100 % v.den = 0
    /\ Leq(Sub(v, x), Frac(1, 200))
    /\ Leq(Sub(x, v), Frac(1, 200))

Rendered == kpis # NoKpis

\* C6 as claimed: for endOfLife=recycling the Use Phase -> Recycling edge
\* carries 0.9 x baseQuantity and the Recycling -> Recycled Materials edge
\* 0.85 x 0.9 x baseQuantity.
C6_RecoveryOfRouted ==
    (Rendered /\ calcScenario.inputs.endOfLife = "recycling")
    => /\ EdgeValues(flows, "Use Phase", "Recycling")
            = { Mul(Frac(9, 10), Frac(calcScenario.inputs.quantity, 1000)) }
       /\ EdgeValues(flows, "Recycling", "Recycled Materials")
            = { Mul(Mul(Frac(85, 100), Frac(9, 10)),
                    Frac(calcScenario.inputs.quantity, 1000)) }

\* C6: for endOfLife=recycling the Use Phase -> Recycling edge carries
\* 0.9 x baseQuantity and the Recycling -> Recycled Materials edge carries
\* 0.85 x baseQuantity, for every quantity.
C6_RecoveryOfBase ==
    (Rendered /\ calcScenario.inputs.endOfLife = "recycling")
    => /\ EdgeValues(flows, "Use Phase", "Recycling")
            = { Mul(Frac(9, 10), Frac(calcScenario.inputs.quantity, 1000)) }
       /\ EdgeValues(flows, "Recycling", "Recycled Materials")
            = { Mul(Frac(85, 100), Frac(calcScenario.inputs.quantity, 1000)) }

C6_Witness ==
    /\ Rendered
    /\ calcScenario.inputs.endOfLife = "recycling"
    /\ calcScenario.inputs.quantity = 1000
    /\ EdgeValues(flows, "Recycling", "Recycled Materials") = { Frac(85, 100) }

\* the scenario rendered, with k times its quantity
Scaled(k) ==
    [calcScenario EXCEPT !.inputs.quantity = k * calcScenario.inputs.quantity]

Factors ==
    { k \in 2..MaxQuantitySteps :
        k * calcScenario.inputs.quantity \in CalcQuantities }

\* C7 as claimed: the co2Footprint, energyUse and waterUse returned for
\* k x quantity are k times the ones returned for quantity.
C7_ReturnedLinear ==
    Rendered =>
      \A k \in Factors : \E r \in calculateKPIs(Scaled(k)) :
        /\ r.co2Footprint = Mul(Num(k), kpis.co2Footprint)
        /\ r.energyUse = Mul(Num(k), kpis.energyUse)
        /\ r.waterUse = Mul(Num(k), kpis.waterUse)

\* a and b differ by at most d
Within(a, b, d) == Leq(Sub(a, b), d) /\ Leq(Sub(b, a), d)

\* C7: the co2Footprint, energyUse and waterUse returned for k x quantity
\* differ from k times the ones returned for quantity by at most
\* (k + 1) x 0.005, the rounding of the two values.
C7_LinearUpToRounding ==
    Rendered =>
      \A k \in Factors : \A r \in calculateKPIs(Scaled(k)) :
        /\ Within(r.co2Footprint, Mul(Num(k), kpis.co2Footprint),
                  Frac(k + 1, 200))
        /\ Within(r.energyUse, Mul(Num(k), kpis.energyUse), Frac(k + 1, 200))
        /\ Within(r.waterUse, Mul(Num(k), kpis.waterUse), Frac(k + 1, 200))

\* a render whose returned co2Footprint is not half the one of twice the
\* quantity
C7_Witness ==
    /\ Rendered
    /\ 2 \in Factors
    /\ \A r \in calculateKPIs(Scaled(2)) :
         r.co2Footprint # Mul(Num(2), kpis.co2Footprint)

\* the formula of C8 for co2Footprint, before rounding
C8_Co2(inputs) ==
    LET recycled == IF inputs.materialSource = "recycled"
                    THEN Frac(15, 100) ELSE Num(1)
        energy == CASE inputs.energySource = "coal" -> Frac(15, 10)
                    [] inputs.energySource = "grid" -> Num(1)
                    [] inputs.energySource = "renewables" -> Frac(1, 10)
        endOfLifeFactor == IF inputs.endOfLife = "recycling"
                           THEN Frac(8, 10) ELSE Num(1)
        base == IF inputs.metal = "aluminum" THEN Frac(119, 10) ELSE Frac(42, 10)
    IN  Div(Mul(Mul(Add(Mul(base, Mul(recycled, energy)),
                        Mul(Num(inputs.transportDistance), Frac(1, 10000))),
                    endOfLifeFactor),
                Num(inputs.quantity)),
            Num(1000))

\* the formula of C8 for energyUse (recycled multiplier 0.05) and waterUse
\* (recycled multiplier 0.30), before rounding
C8_Scaled(base, recycledMultiplier, inputs) ==
    Div(Mul(Mul(base, IF inputs.materialSource = "recycled"
                      THEN recycledMultiplier ELSE Num(1)),
            Num(inputs.quantity)),
        Num(1000))

\* C8: co2Footprint is (base.co2 x co2Multiplier + transportDistance x
\* 0.0001) x endOfLifeFactor x quantity / 1000 rounded to 2 decimals;
\* energyUse and waterUse are base x recycled multiplier x quantity / 1000
\* rounded to 2 decimals.
C8_KpiFormulas ==
    Rendered =>
      LET inputs == calcScenario.inputs IN
        /\ IsRounded2(kpis.co2Footprint, C8_Co2(inputs))
        /\ IsRounded2(kpis.energyUse,
                      C8_Scaled(IF inputs.metal = "aluminum"
                                THEN Num(170) ELSE Num(65),
                                Frac(5, 100), inputs))
        /\ IsRounded2(kpis.waterUse,
                      C8_Scaled(IF inputs.metal = "aluminum"
                                THEN Num(1550) ELSE Num(440),
                                Frac(30, 100), inputs))

\* a render where transport and the end-of-life factor both count
C8_Witness ==
    /\ Rendered
    /\ calcScenario.inputs.endOfLife = "recycling"
    /\ calcScenario.inputs.materialSource = "recycled"
    /\ calcScenario.inputs.energySource = "coal"
    /\ calcScenario.inputs.transportDistance = 5000
    /\ kpis.co2Footprint = Frac(254, 100)

\* aluminum, recycled, grid, 500 km, recycling, 1000 kg
C9_Inputs ==
    /\ calcScenario.inputs.metal = "aluminum"
    /\ calcScenario.inputs.materialSource = "recycled"
    /\ calcScenario.inputs.energySource = "grid"
    /\ calcScenario.inputs.transportDistance = 500
    /\ calcScenario.inputs.endOfLife = "recycling"
    /\ calcScenario.inputs.quantity = 1000

\* C9 as claimed: for these inputs co2Multiplier is 0.15, endOfLifeFactor
\* 0.8 and the co2Footprint returned is 1.468.
C9_Returns1468 ==
    (Rendered /\ C9_Inputs)
    => /\ co2Multiplier(calcScenario.inputs) = Frac(15, 100)
       /\ endOfLifeBonus(calcScenario.inputs) = Frac(8, 10)
       /\ kpis.co2Footprint = Frac(1468, 1000)

\* C9: for these inputs co2Multiplier is 0.15, endOfLifeFactor 0.8, the
\* unrounded co2 footprint 1.468 and the co2Footprint returned 1.47.
C9_Returns147 ==
    (Rendered /\ C9_Inputs)
    => /\ co2Multiplier(calcScenario.inputs) = Frac(15, 100)
       /\ endOfLifeBonus(calcScenario.inputs) = Frac(8, 10)
       /\ co2Footprint(calcScenario.inputs) = Frac(1468, 1000)
       /\ kpis.co2Footprint = Frac(147, 100)

C9_Witness == Rendered /\ C9_Inputs /\ kpis.co2Footprint = Frac(147, 100)

\* aluminum, primary, grid, 500 km, landfill, 1000 kg
C10_Inputs ==
    /\ calcScenario.inputs.metal = "aluminum"
    /\ calcScenario.inputs.materialSource = "primary"
    /\ calcScenario.inputs.energySource = "grid"
    /\ calcScenario.inputs.transportDistance = 500
    /\ calcScenario.inputs.endOfLife = "landfill"
    /\ calcScenario.inputs.quantity = 1000

\* C10: for these inputs co2Multiplier is 1, the transport term 0.05,
\* endOfLifeFactor 1.0 and the co2Footprint returned 11.95.
C10_Returns1195 ==
    (Rendered /\ C10_Inputs)
    => /\ co2Multiplier(calcScenario.inputs) = Num(1)
       /\ transportEmissions(calcScenario.inputs) = Frac(5, 100)
       /\ endOfLifeBonus(calcScenario.inputs) = Num(1)
       /\ kpis.co2Footprint = Frac(1195, 100)

C10_Witness == Rendered /\ C10_Inputs /\ kpis.co2Footprint = Frac(1195, 100)

-----------------------------------------------------------------------------
(* Mass balance of the flow edges, and the KPIs that follow the inputs *)

\* the edges of fs that bring material into Production
MaterialInputEdges(fs) ==
    SelectSeq(fs, LAMBDA f : f.to = "Production"
                             /\ f.from \in {"Raw Materials", "Recycled Materials"})

\* the edges of fs that leave Use Phase
UsePhaseOutEdges(fs) == SelectSeq(fs, LAMBDA f : f.from = "Use Phase")

RECURSIVE SumValues(_)
\* the sum of the values of the edges of fs
SumValues(fs) ==
    IF fs = << >> THEN Num(0) ELSE Add(Head(fs).value, SumValues(Tail(fs)))

\* C11: the material input edges into Production conserve mass: for
\* materialSource=primary there is exactly one, of value baseQuantity; for
\* recycled there are exactly two, 0.85 x baseQuantity (recycled) and
\* 0.15 x baseQuantity (primary); in both cases they sum to
\* baseQuantity = quantity / 1000.
C11_MaterialInputsConserveMass ==
    Rendered =>
      LET ins == MaterialInputEdges(flows)
          base == Frac(calcScenario.inputs.quantity, 1000)
      IN  /\ calcScenario.inputs.materialSource = "primary"
               => /\ Len(ins) = 1
                  /\ ins[1].value = base
          /\ calcScenario.inputs.materialSource = "recycled"
               => /\ Len(ins) = 2
                  /\ \E i, j \in 1..2 :
                       /\ ins[i].type = "recycled"
                       /\ ins[i].value = Mul(Frac(85, 100), base)
                       /\ ins[j].type = "primary"
                       /\ ins[j].value = Mul(Frac(15, 100), base)
          /\ SumValues(ins) = base

\* a render of a recycled 700 kg: the two shares 0.595 and 0.105
C11_Witness ==
    /\ Rendered
    /\ calcScenario.inputs.materialSource = "recycled"
    /\ calcScenario.inputs.quantity = 700
    /\ EdgeValues(flows, "Recycled Materials", "Production") = { Frac(595, 1000) }
    /\ EdgeValues(flows, "Raw Materials", "Production") = { Frac(105, 1000) }

\* C12: the edges leaving Use Phase sum to baseQuantity: for
\* endOfLife=recycling 0.9 x baseQuantity goes to Recycling and
\* 0.1 x baseQuantity to Waste; for landfill a single edge of baseQuantity
\* goes to Waste and no edge touches Recycling.
C12_UsePhaseOutflowConservesMass ==
    Rendered =>
      LET outs == UsePhaseOutEdges(flows)
          base == Frac(calcScenario.inputs.quantity, 1000)
      IN  /\ SumValues(outs) = base
          /\ calcScenario.inputs.endOfLife = "recycling"
               => /\ Len(outs) = 2
                  /\ EdgeValues(flows, "Use Phase", "Recycling")
                       = { Mul(Frac(9, 10), base) }
                  /\ EdgeValues(flows, "Use Phase", "Waste")
                       = { Mul(Frac(1, 10), base) }
          /\ calcScenario.inputs.endOfLife = "landfill"
               => /\ Len(outs) = 1
                  /\ outs[1].to = "Waste"
                  /\ outs[1].value = base
                  /\ \A i \in DOMAIN flows :
                       flows[i].from # "Recycling" /\ flows[i].to # "Recycling"

\* a landfill render of 300 kg: one edge of 0.3 out of Use Phase
C12_Witness ==
    /\ Rendered
    /\ calcScenario.inputs.endOfLife = "landfill"
    /\ calcScenario.inputs.quantity = 300
    /\ Len(UsePhaseOutEdges(flows)) = 1
    /\ EdgeValues(flows, "Use Phase", "Waste") = { Frac(3, 10) }

\* C13: materialSource=recycled gives recycledContent 85 and costSavings
\* 1250, primary gives 0 for both, whatever the metal, energySource,
\* transport, endOfLife, quantity and scenario type.
C13_RecycledContentAndSavings ==
    Rendered =>
      /\ calcScenario.inputs.materialSource = "recycled"
           => kpis.recycledContent = 85 /\ kpis.costSavings = 1250
      /\ calcScenario.inputs.materialSource = "primary"
           => kpis.recycledContent = 0 /\ kpis.costSavings = 0

\* a conventional scenario with recycled material that is landfilled
C13_Witness ==
    /\ Rendered
    /\ calcScenario.type = "conventional"
    /\ calcScenario.inputs.materialSource = "recycled"
    /\ calcScenario.inputs.endOfLife = "landfill"
    /\ kpis.recycledContent = 85
    /\ kpis.costSavings = 1250

\* the scenario rendered, with its energy source replaced
WithEnergySource(energySource) ==
    [calcScenario EXCEPT !.inputs.energySource = energySource]

\* the order of the energy sources claimed by C14, lowest first
EnergyRank(energySource) ==
    CASE energySource = "renewables" -> 0
      [] energySource = "grid" -> 1
      [] energySource = "coal" -> 2

\* C14: for fixed other inputs the CO2 multiplier is lowest for renewables
\* (0.1), then grid (1.0), then coal (1.5), so the co2Footprint returned
\* with renewables is never greater than with grid, and with grid never
\* greater than with coal.
C14_EnergySourceOrdersCo2 ==
    Rendered =>
      /\ energyFactors("renewables") = Frac(1, 10)
      /\ energyFactors("grid") = Num(1)
      /\ energyFactors("coal") = Frac(15, 10)
      /\ \A other \in InputValues("energySource") :
           \A r \in calculateKPIs(WithEnergySource(other)) :
             /\ EnergyRank(other) < EnergyRank(calcScenario.inputs.energySource)
                  => Leq(r.co2Footprint, kpis.co2Footprint)
             /\ EnergyRank(calcScenario.inputs.energySource) < EnergyRank(other)
                  => Leq(kpis.co2Footprint, r.co2Footprint)

\* a grid render whose co2Footprint lies strictly between the ones of
\* renewables and coal
C14_Witness ==
    /\ Rendered
    /\ C10_Inputs
    /\ kpis.co2Footprint = Frac(1195, 100)
    /\ calculateKPIs(WithEnergySource("renewables"))
         = { [kpis EXCEPT !.co2Footprint = Frac(124, 100)] }
    /\ calculateKPIs(WithEnergySource("coal"))
         = { [kpis EXCEPT !.co2Footprint = Frac(179, 10)] }

-----------------------------------------------------------------------------
(* Properties of the two asynchronous panels *)

\* the state of the report panel
ReportPhase(generating, generated) ==
    CASE generating /\ ~generated -> "Generating"
      [] ~generating /\ generated -> "Generated"
      [] ~generating /\ ~generated -> "Idle"
      [] generating /\ generated -> "GeneratingAndGenerated"

\* C15: the report panel is always Idle, Generating or Generated, and it
\* changes only from Idle to Generating (the trigger), from Generating to
\* Generated (when the 3000 ms delay has passed, whether the fetch resolved
\* or rejected) and from Generated to Idle (by 'Generate New Report'); in
\* particular Generating never returns to Idle without passing Generated.
C15_ReportPanelTransitions ==
    /\ [](ReportPhase(isGenerating, reportGenerated)
            \in {"Idle", "Generating", "Generated"})
    /\ [][LET before == ReportPhase(isGenerating, reportGenerated)
              after == ReportPhase(isGenerating', reportGenerated')
          IN  before # after =>
                \/ before = "Idle" /\ after = "Generating"
                \/ /\ before = "Generating" /\ after = "Generated"
                   /\ repElapsed >= ReportDelayMs
                \/ /\ before = "Generated" /\ after = "Idle"
                   /\ GenerateNewReport]_vars

\* the panel back at Idle after a generation whose fetch was rejected
C15_Witness ==
    /\ ReportPhase(isGenerating, reportGenerated) = "Idle"
    /\ repFetch = "rejected"
    /\ repElapsed = ReportDelayMs
    /\ toast = "Report Generated Successfully"

\* C16: a rejected fetch ends like a resolved one.  The step that ends an
\* LCA run leaves isRunningLCA false and shows no notification (the toast
\* and the field errors stay as they were), and the step that ends a report
\* generation leaves reportGenerated true, isGenerating false and the toast
\* "Report Generated Successfully", whether the fetch resolved or rejected.
C16_RejectionEndsLikeSuccess ==
    [][/\ (isRunningLCA /\ ~isRunningLCA')
            => /\ lcaFetch' \in {"resolved", "rejected"}
               /\ toast' = toast
               /\ errors' = errors
       /\ (isGenerating /\ ~isGenerating')
            => /\ repFetch' \in {"resolved", "rejected"}
               /\ reportGenerated'
               /\ toast' = "Report Generated Successfully"]_vars

\* both fetches rejected, the run over and the report shown
C16_Witness ==
    /\ lcaFetch = "rejected"
    /\ ~isRunningLCA
    /\ repFetch = "rejected"
    /\ ~isGenerating
    /\ reportGenerated
    /\ toast = "Report Generated Successfully"

\* C17: every started LCA run terminates: isRunningLCA true leads to
\* isRunningLCA false, given that the fetch settles and a due timer fires;
\* and once a run has been submitted no error is shown: no field error is
\* set and the only notifications are the two success toasts.
C17_RunTerminates ==
    /\ isRunningLCA ~> ~isRunningLCA
    /\ [](lcaFetch # "none"
            => /\ \A key \in Keys : ErrorAt(errors, key) = ""
               /\ toast \in {"LCA Analysis Started",
                             "Report Generated Successfully"})

\* a run over after a resolved fetch and the full delay
C17_Witness ==
    /\ ~isRunningLCA
    /\ lcaFetch = "resolved"
    /\ lcaRequest = defaultInputs
    /\ lcaElapsed >= LcaDelayMs

\* C18: the LCA run and the report generation do not exclude each other: a
\* report can be requested while a run is in progress and a run submitted
\* while a report is generating, the step that starts one leaves the state
\* of the other unchanged, and so both can be in progress at once.
C18_RunAndReportIndependent ==
    /\ []((isRunningLCA /\ ~isGenerating /\ ~reportGenerated)
            => ENABLED handleGenerateReport)
    /\ []((isGenerating /\ ~isRunningLCA) => ENABLED handleSubmit)
    /\ [][/\ (~isGenerating /\ isGenerating')
               => UNCHANGED << isRunningLCA, lcaFetch, lcaRequest, lcaTimer,
                               lcaElapsed >>
          /\ (~isRunningLCA /\ isRunningLCA')
               => UNCHANGED << isGenerating, reportGenerated, repFetch,
                               repTimer, repElapsed >>]_vars

\* a run and a report generation in progress together, each counting its
\* own delay
C18_Witness ==
    /\ isRunningLCA
    /\ isGenerating
    /\ lcaTimer = LcaDelayMs
    /\ repTimer = ReportDelayMs

-----------------------------------------------------------------------------
(* Properties of the states the dashboard's controls lead to *)

\* inputs pass validateInputs
ValidInputs(inputs) ==
    /\ inputs.quantity > 0
    /\ 0 <= inputs.transportDistance
    /\ inputs.transportDistance <= MaxDistance

\* C19: in every state reached from the seeded defaults through the form's
\* controls (cards, selects, sliders) and scenario selections, the form
\* inputs and both scenarios' inputs have quantity > 0 and
\* 0 <= transportDistance <= 10000, so validation never fails: validateInputs
\* finds no error, no field error is set and no Validation Error is shown.
C19_ControlsKeepInputsValid ==
    /\ \A inputs \in { currentInputs, scenarios[0].inputs, scenarios[1].inputs } :
         /\ ValidInputs(inputs)
         /\ DOMAIN validateInputs(inputs) = {}
    /\ \A key \in Keys : ErrorAt(errors, key) = ""
    /\ toast # "Validation Error"

\* both sliders moved to an end of their range, the second scenario
\* selected in between, and the submit accepted
C19_Witness ==
    /\ selectedScenario = 1
    /\ scenarios[0].inputs.transportDistance = DistanceSliderMax
    /\ scenarios[1].inputs.transportDistance = DistanceSliderMax
    /\ scenarios[1].inputs.quantity = QuantitySliderMin
    /\ lcaRequest = scenarios[1].inputs
    /\ toast = "LCA Analysis Started"

\* C20: circularityIndex depends on the scenario type only: after any
\* sequence of edits and selections the KPIs of scenario 0 (conventional)
\* report 25 and those of scenario 1 (circular) 75, whatever materialSource
\* and endOfLife they hold; and the scenario list always has exactly two
\* entries, whose name and type never change.
C20_CircularityFollowsType ==
    /\ DOMAIN scenarios = {0, 1}
    /\ \A i \in {0, 1} :
         /\ scenarios[i].name = initialScenarios[i].name
         /\ scenarios[i].type = initialScenarios[i].type
    /\ scenarios[0].type = "conventional"
    /\ scenarios[1].type = "circular"
    /\ \A r \in calculateKPIs(scenarios[0]) : r.circularityIndex = 25
    /\ \A r \in calculateKPIs(scenarios[1]) : r.circularityIndex = 75

\* the two scenarios holding the same inputs, primary and landfilled
C20_Witness ==
    /\ scenarios[0].inputs = scenarios[1].inputs
    /\ scenarios[1].inputs.materialSource = "primary"
    /\ scenarios[1].inputs.endOfLife = "landfill"
    /\ \E r \in calculateKPIs(scenarios[0]) : r.circularityIndex = 25
    /\ \E r \in calculateKPIs(scenarios[1]) : r.circularityIndex = 75

-----------------------------------------------------------------------------
(* Properties of the form and the scenario it edits *)

\* C21: an edit through the form changes exactly the edited field of the
\* selected scenario: an updateInput(key, value) leaves every other field
\* of scenarios[selectedScenario].inputs equal to its value before the edit.
C21_EditChangesOneField ==
    [][\A key \in Keys : \A value \in InputValues(key) :
         updateInput(key, value)
           => \A other \in Keys \ {key} :
                scenarios'[selectedScenario].inputs[other]
                  = scenarios[selectedScenario].inputs[other]]_vars

\* C22: the record the form shows, validates and posts (currentInputs)
\* equals the inputs of the selected scenario, from which the displayed KPIs
\* and flows are computed, in every reachable state.
C22_FormShowsSelectedScenario ==
    currentInputs = scenarios[selectedScenario].inputs

-----------------------------------------------------------------------------
(* Properties of the invocations in flight *)

\* C23: the report panel is always in exactly one of its three states:
\* isGenerating and reportGenerated are never both true (Idle = both false,
\* Generating = only isGenerating, Generated = only reportGenerated).
C23_GeneratingExcludesGenerated ==
    /\ ~(isGenerating /\ reportGenerated)
    /\ Cardinality({ phase \in {"Idle", "Generating", "Generated"} :
                       phase = ReportPhase(isGenerating, reportGenerated) }) = 1

\* a second generation under way, after the first report was shown and
\* dismissed
C23_Witness ==
    /\ isGenerating
    /\ ~reportGenerated
    /\ repFetch = "pending"
    /\ toast = "Report Generated Successfully"

\* C24: of each action at most one invocation is in flight.  A new LCA run
\* cannot be started while isRunningLCA is true and a new report generation
\* cannot be started while isGenerating or reportGenerated is true; and
\* while a flag is false its action has no fetch unsettled and no delay
\* timer pending, so a new invocation never overlaps an earlier one.
C24_OneInvocationInFlight ==
    /\ isRunningLCA => ~ENABLED handleSubmit
    /\ (isGenerating \/ reportGenerated) => ~ENABLED handleGenerateReport
    /\ ~isRunningLCA => (lcaFetch # "pending" /\ lcaTimer = NoTimer)
    /\ ~isGenerating => (repFetch # "pending" /\ repTimer = NoTimer)

\* a run waiting for its timer while a report is shown: neither action can
\* be started
C24_Witness ==
    /\ isRunningLCA
    /\ lcaFetch = "resolved"
    /\ lcaTimer > 0
    /\ reportGenerated
    /\ ~ENABLED handleSubmit
    /\ ~ENABLED handleGenerateReport

-----------------------------------------------------------------------------
(* Properties across the components *)

\* the places <<column, position>> at which the columns st display edge f
PlacesOf(st, f) ==
    { place \in UNION { { << s, j >> : j \in DOMAIN st[s].flows } :
                          s \in DOMAIN st } :
        st[place[1]].flows[place[2]] = f }

\* C25: every edge returned by generateFlowData is displayed in exactly one
\* of the five stage columns (Inputs: to = Production; Production,
\* Distribution, End of Life, Recovery: from = Production, Distribution,
\* Use Phase, Recycling), for every input record: no edge is dropped and
\* none appears twice.
C25_EveryEdgeInOneColumn ==
    Rendered =>
      LET st == stages(flows) IN
        /\ Len(st) = 5
        /\ \A i \in DOMAIN flows : Cardinality(PlacesOf(st, flows[i])) = 1
        /\ \A i, j \in DOMAIN flows : flows[i] = flows[j] => i = j

\* a render with recycled input and recycling: eight edges, three in
\* Inputs, two in End of Life and one in each other column
C25_Witness ==
    /\ Rendered
    /\ Len(flows) = 8
    /\ Len(stages(flows)[1].flows) = 3
    /\ Len(stages(flows)[2].flows) = 1
    /\ Len(stages(flows)[3].flows) = 1
    /\ Len(stages(flows)[4].flows) = 2
    /\ Len(stages(flows)[5].flows) = 1

\* the recycled material entering Production as a percentage of all
\* material entering it
RecycledShareOfInputs(fs) ==
    LET ins == MaterialInputEdges(fs)
        recycled == SelectSeq(ins, LAMBDA f : f.type = "recycled")
    IN  Div(Mul(Num(100), SumValues(recycled)), SumValues(ins))

\* C26: the recycled-content figure is the same in every component: for
\* every scenario the recycledContent of calculateKPIs equals the
\* recycledContent of getImpactPreview and equals 100 x (value of the
\* recycled input edge) / (sum of the material input edges) of
\* generateFlowData.
C26_RecycledContentConsistent ==
    Rendered =>
      /\ kpis.recycledContent = getImpactPreview(calcScenario).recycledContent
      /\ Num(kpis.recycledContent) = RecycledShareOfInputs(flows)

\* a conventional scenario fed with recycled material: 85 in all three
C26_Witness ==
    /\ Rendered
    /\ calcScenario.type = "conventional"
    /\ calcScenario.inputs.materialSource = "recycled"
    /\ getImpactPreview(calcScenario).recycledContent = 85
    /\ RecycledShareOfInputs(flows) = Num(85)
    /\ kpis.recycledContent = 85

\* the scenario rendered, with its transport mode replaced
WithTransportMode(mode) ==
    [calcScenario EXCEPT !.inputs.transportMode = mode]

\* C27: transportMode has no effect on any derived output: input records
\* that differ only in transportMode yield the same calculateKPIs results
\* and the same generateFlowData edge lists, and pass or fail validation
\* identically (the latter also for the numbers validateInputs rejects).
C27_TransportModeHasNoEffect ==
    Rendered =>
      \A mode \in InputValues("transportMode") :
        /\ calculateKPIs(WithTransportMode(mode)) = calculateKPIs(calcScenario)
        /\ kpis \in calculateKPIs(WithTransportMode(mode))
        /\ generateFlowData(WithTransportMode(mode)) = flows
        /\ \A distance \in InputValues("transportDistance") \cup CalcDistances :
             \A quantity \in InputValues("quantity") :
               LET inputs == [calcScenario.inputs EXCEPT
                                !.transportDistance = distance,
                                !.quantity = quantity]
               IN  validateInputs([inputs EXCEPT !.transportMode = mode])
                     = validateInputs(inputs)

\* a 5000 km render by ship whose KPIs are those of the same record by
\* truck and by rail
C27_Witness ==
    /\ Rendered
    /\ calcScenario.inputs.transportMode = "ship"
    /\ calcScenario.inputs.transportDistance = DistanceSliderMax
    /\ transportEmissions(calcScenario.inputs) = Frac(1, 2)
    /\ kpis \in calculateKPIs(WithTransportMode("truck"))
    /\ kpis \in calculateKPIs(WithTransportMode("rail"))

====
